---- MODULE Spec2Model ----
(***************************************************************************)
(* Model of crossbar/controller/cli.py: the node.pid instance guard        *)
(* (check_is_running), the lifecycle commands start / stop / status /      *)
(* restart, and the operating-system objects they act on: the record file  *)
(* of one node directory, the process table and the signals sent.          *)
(***************************************************************************)
EXTENDS Integers, Sequences, FiniteSets, TLC

(* ------------------------------------------------------------------ *)
(* Bounds                                                             *)
(* ------------------------------------------------------------------ *)

\* number of command-line invocations that can be in flight; invocation p
\* runs as the operating-system process with PID p, and an unrelated program
\* can be given PID p when no invocation holds it
NumProcs == 2

Procs == 1..NumProcs
PIDs == Procs

(* ------------------------------------------------------------------ *)
(* Python values, JSON documents and the text of the record file      *)
(* ------------------------------------------------------------------ *)

PyNone == [t |-> "NoneType", v |-> "None"]
PyStr(s) == [t |-> "str", v |-> s]
PyInt(n) == [t |-> "int", v |-> n]
PyBool(b) == [t |-> "bool", v |-> b]
PyList(s) == [t |-> "list", v |-> s]
PyDict(f) == [t |-> "dict", v |-> f]
PyFunction == [t |-> "function", v |-> "run_command"]

\* what a raised exception looks like where a value was expected
Raise(e) == [t |-> "raise", v |-> e]
IsRaise(x) == x.t = "raise"

\* the text of a file: either the serialisation of a JSON document (kept as
\* the document) or text that is no JSON document at all
JsonText(doc) == [t |-> "json", v |-> doc]
RawText(s) == [t |-> "raw", v |-> s]
EmptyText == RawText("")

RECURSIVE json_dumps(_)
\* json.dumps: Python value -> JSON document, or TypeError
json_dumps(x) ==
    CASE x.t = "NoneType" -> [t |-> "null", v |-> "null"]
      [] x.t = "str" -> [t |-> "string", v |-> x.v]
      [] x.t = "int" -> [t |-> "number", v |-> x.v]
      [] x.t = "bool" -> [t |-> "boolean", v |-> x.v]
      [] x.t \in {"list", "tuple"} ->
            LET items == [i \in DOMAIN x.v |-> json_dumps(x.v[i])]
            IN IF \E i \in DOMAIN items : IsRaise(items[i])
               THEN Raise("TypeError")
               ELSE [t |-> "array", v |-> items]
      [] x.t = "dict" ->
            LET members == [k \in DOMAIN x.v |-> json_dumps(x.v[k])]
            IN IF \E k \in DOMAIN members : IsRaise(members[k])
               THEN Raise("TypeError")
               ELSE [t |-> "object", v |-> members]
      [] OTHER -> Raise("TypeError")

RECURSIVE json_value(_)
\* the Python value json.loads builds from a JSON document
json_value(d) ==
    CASE d.t = "null" -> PyNone
      [] d.t = "string" -> PyStr(d.v)
      [] d.t = "number" -> PyInt(d.v)
      [] d.t = "boolean" -> PyBool(d.v)
      [] d.t = "array" -> PyList([i \in DOMAIN d.v |-> json_value(d.v[i])])
      [] d.t = "object" -> PyDict([k \in DOMAIN d.v |-> json_value(d.v[k])])

\* json.loads: text -> Python value, or ValueError when the text is no JSON
json_loads(text) ==
    IF text.t = "json" THEN json_value(text.v) ELSE Raise("ValueError")

\* pid_data['pid'] : TypeError unless pid_data is a dict, KeyError without the key
subscript_pid(pid_data) ==
    IF pid_data.t # "dict" THEN Raise("TypeError")
    ELSE IF "pid" \notin DOMAIN pid_data.v THEN Raise("KeyError")
    ELSE pid_data.v["pid"]

\* int(x) for the values a JSON document can hold
py_int(x) ==
    CASE x.t = "int" -> x
      [] x.t = "bool" -> PyInt(IF x.v THEN 1 ELSE 0)
      [] x.t = "str" -> Raise("ValueError")   \* only non-numeric strings are modelled
      [] OTHER -> Raise("TypeError")

\* lines 144-145: pid_data = json.loads(pid_data_str); pid = int(pid_data['pid'])
\* yields [data, pid] or the exception raised
parse_pid_data(text) ==
    LET data == json_loads(text)
    IN IF IsRaise(data) THEN data
       ELSE LET item == subscript_pid(data)
            IN IF IsRaise(item) THEN item
               ELSE LET pid == py_int(item)
                    IN IF IsRaise(pid) THEN pid
                       ELSE [t |-> "parsed", v |-> pid.v, data |-> data]

(* ------------------------------------------------------------------ *)
(* Command lines and the identity verifier                            *)
(* ------------------------------------------------------------------ *)

\* command-line tokens are sequences of characters, so that Python's
\* substring test ('crossbar' in token) is computed, not assumed
T_crossbar == <<"c","r","o","s","s","b","a","r">>
T_controller == <<"c","r","o","s","s","b","a","r","-","c","o","n","t","r","o","l","l","e","r">>
T_python == <<"p","y","t","h","o","n">>
T_script == <<"/","b","i","n","/","c","r","o","s","s","b","a","r">>
T_dash_m == <<"-","m">>
T_module == <<"c","r","o","s","s","b","a","r",".","c","o","n","t","r","o","l","l","e","r",".","c","l","i">>
T_bash == <<"b","a","s","h">>
T_vim == <<"v","i","m">>
T_logname == <<"c","r","o","s","s","b","a","r",".","l","o","g">>
T_sshd == <<"s","s","h","d">>
T_cmd == <<"c","m","d">>

\* Python's  sub in s  for strings
str_contains(sub, s) ==
    \E i \in 1..(Len(s) - Len(sub) + 1) : SubSeq(s, i, i + Len(sub) - 1) = sub

\* lines 115-124; cmdline[0] of an empty list raises IndexError
_is_crossbar_process(cmdline) ==
    IF Len(cmdline) > 1 /\ str_contains(T_crossbar, cmdline[2]) THEN PyBool(TRUE)
    ELSE IF Len(cmdline) = 0 THEN Raise("IndexError")
    ELSE IF cmdline[1] = T_controller THEN PyBool(TRUE)
    ELSE PyBool(FALSE)

\* The kinds of process a PID can name.  "console": this program started by its
\* console script (python /bin/crossbar <cmd>); "module": this program started
\* through the __main__ block of cli.py (python -m crossbar.controller.cli <cmd>);
\* the others are unrelated programs: a shell, an editor with a file named
\* crossbar.log.  psutil can also report an empty command line (a zombie), and
\* a process can belong to another user ("foreign"): these two occur as inputs
\* of the prober and the verifier.
OwnKinds == {"console", "module"}
OtherKinds == {"bash", "vimlog"}

\* psutil.Process(pid).cmdline() by kind of process
cmdline_of(kind) ==
    CASE kind = "console" -> <<T_python, T_script, T_cmd>>
      [] kind = "module" -> <<T_python, T_dash_m, T_module, T_cmd>>
      [] kind = "bash" -> <<T_bash>>
      [] kind = "vimlog" -> <<T_vim, T_logname>>
      [] kind = "zombie" -> <<>>
      [] kind = "foreign" -> <<T_sshd>>

(* ------------------------------------------------------------------ *)
(* State                                                              *)
(* ------------------------------------------------------------------ *)

VARIABLES
    win32,        \* sys.platform == 'win32'
    HAS_PSUTIL,   \* _HAS_PSUTIL (lines 53-57)
    file,         \* the node.pid file of the node directory
    ptable,       \* process table: PID -> kind of process, "none" when free
    pc,           \* where each invocation stands
    cmd,          \* the subcommand an invocation was launched with
    cur,          \* the run_command_* function it is executing
    argv,         \* options.argv
    rbuf,         \* pid_data_str: what check_is_running read
    pid_data,     \* the value check_is_running returned
    fd,           \* the file start holds open for writing
    hook,         \* remove_pid_file installed as shutdown trigger
    worker,       \* node.start() was invoked
    gotsig,       \* the reactor's signal handler has run
    cause,        \* why the reactor was stopped
    handle,       \* the psutil.Process object of stop
    waitres,      \* how p.wait(timeout) ended
    reported,     \* the PID status reported as running
    nterm,        \* graceful-termination requests sent by the invocation
    nkill,        \* kill requests sent by the invocation
    sent,         \* the signals the invocation sent: to which PID, to what kind of process
    seen,         \* the kind of process the record's PID named when the lookup probed it
    warned,       \* check_is_running logged its 'Verify manually' lines (168-170) in this run
    probed,       \* a direct call of check_pid_exists: its argument, the error os.kill met, its result
    verified,     \* a direct call of _is_crossbar_process: its argument and its result
    exitcode,     \* exit status of a finished invocation
    raised        \* the exception an invocation died of

vars == <<win32, HAS_PSUTIL, file, ptable, pc, cmd, cur, argv, rbuf, pid_data,
          fd, hook, worker, gotsig, cause, handle, waitres, reported, nterm,
          nkill, sent, seen, warned, probed, verified, exitcode, raised>>

Commands == {"start", "stop", "status"}

NoFile == [exists |-> FALSE, ino |-> 0, text |-> EmptyText]
NoHandle == [pid |-> 0, gone |-> FALSE]
NoArgv == <<>>

Alive(pid) == pid \in PIDs /\ ptable[pid] # "none"

(* ------------------------------------------------------------------ *)
(* The liveness prober and the lookup                                 *)
(* ------------------------------------------------------------------ *)

\* os.kill(pid, sig): the error it raises, "ok" when the signal is delivered
os_kill_errno(pid) ==
    IF ~Alive(pid) THEN "ESRCH"
    ELSE IF ptable[pid] = "foreign" THEN "EPERM"
    ELSE "ok"

\* psutil.pid_exists(pid)
psutil_pid_exists(pid) == Alive(pid)

\* lines 89-112
check_pid_exists(pid) ==
    IF win32
    THEN IF HAS_PSUTIL THEN PyBool(psutil_pid_exists(pid))
         ELSE Raise("Exception")
    ELSE IF os_kill_errno(pid) # "ok" THEN PyBool(FALSE) ELSE PyBool(TRUE)

\* psutil.Process(pid).cmdline()
psutil_cmdline(pid) == cmdline_of(ptable[pid])

\* check_is_running without lines 160-172: a live PID is taken for an instance
\* whatever its command line
check_is_running_unverified(text) ==
    LET parsed == parse_pid_data(text)
    IN IF IsRaise(parsed)
       THEN IF parsed.v = "ValueError"
            THEN [ret |-> PyNone, remove |-> TRUE, warn |-> FALSE]
            ELSE [ret |-> parsed, remove |-> FALSE, warn |-> FALSE]
       ELSE IF win32 /\ ~HAS_PSUTIL
       THEN [ret |-> parsed.data, remove |-> FALSE, warn |-> FALSE]
       ELSE LET pid_exists == check_pid_exists(parsed.v)
            IN IF IsRaise(pid_exists) THEN [ret |-> pid_exists, remove |-> FALSE, warn |-> FALSE]
               ELSE IF pid_exists.v
               THEN [ret |-> parsed.data, remove |-> FALSE, warn |-> FALSE]
               ELSE [ret |-> PyNone, remove |-> TRUE, warn |-> FALSE]

\* check_is_running without the except clause of lines 146-152: the ValueError
\* of json.loads or int() leaves the function
check_is_running_no_except(text) ==
    LET parsed == parse_pid_data(text)
    IN IF IsRaise(parsed)
       THEN [ret |-> parsed, remove |-> FALSE, warn |-> FALSE]
       ELSE IF win32 /\ ~HAS_PSUTIL
       THEN [ret |-> parsed.data, remove |-> FALSE, warn |-> FALSE]
       ELSE LET pid_exists == check_pid_exists(parsed.v)
            IN IF IsRaise(pid_exists) THEN [ret |-> pid_exists, remove |-> FALSE, warn |-> FALSE]
               ELSE IF pid_exists.v
               THEN IF HAS_PSUTIL
                    THEN LET ok == _is_crossbar_process(psutil_cmdline(parsed.v))
                         IN IF IsRaise(ok) THEN [ret |-> ok, remove |-> FALSE, warn |-> FALSE]
                            ELSE IF ~ok.v THEN [ret |-> PyNone, remove |-> FALSE, warn |-> TRUE]
                            ELSE [ret |-> parsed.data, remove |-> FALSE, warn |-> FALSE]
                    ELSE [ret |-> parsed.data, remove |-> FALSE, warn |-> FALSE]
               ELSE [ret |-> PyNone, remove |-> TRUE, warn |-> FALSE]

\* check_is_running without the test of lines 154-157: the prober is called on
\* every platform
check_is_running_always_probes(text) ==
    LET parsed == parse_pid_data(text)
    IN IF IsRaise(parsed)
       THEN IF parsed.v = "ValueError"
            THEN [ret |-> PyNone, remove |-> TRUE, warn |-> FALSE]
            ELSE [ret |-> parsed, remove |-> FALSE, warn |-> FALSE]
       ELSE LET pid_exists == check_pid_exists(parsed.v)
            IN IF IsRaise(pid_exists) THEN [ret |-> pid_exists, remove |-> FALSE, warn |-> FALSE]
               ELSE IF pid_exists.v
               THEN IF HAS_PSUTIL
                    THEN LET ok == _is_crossbar_process(psutil_cmdline(parsed.v))
                         IN IF IsRaise(ok) THEN [ret |-> ok, remove |-> FALSE, warn |-> FALSE]
                            ELSE IF ~ok.v THEN [ret |-> PyNone, remove |-> FALSE, warn |-> TRUE]
                            ELSE [ret |-> parsed.data, remove |-> FALSE, warn |-> FALSE]
                    ELSE [ret |-> parsed.data, remove |-> FALSE, warn |-> FALSE]
               ELSE [ret |-> PyNone, remove |-> TRUE, warn |-> FALSE]

\* lines 143-181 of check_is_running, applied to the text read from the file:
\* the value returned (or the exception raised), whether os.remove(fp) is called
\* and whether the lines 168-170 are logged
check_is_running(text) ==
    LET parsed == parse_pid_data(text)
    IN IF IsRaise(parsed)
       THEN IF parsed.v = "ValueError"
            THEN [ret |-> PyNone, remove |-> TRUE, warn |-> FALSE]
            ELSE [ret |-> parsed, remove |-> FALSE, warn |-> FALSE]
       ELSE IF win32 /\ ~HAS_PSUTIL
       THEN [ret |-> parsed.data, remove |-> FALSE, warn |-> FALSE]
       ELSE LET pid_exists == check_pid_exists(parsed.v)
            IN IF IsRaise(pid_exists) THEN [ret |-> pid_exists, remove |-> FALSE, warn |-> FALSE]
               ELSE IF pid_exists.v
               THEN IF HAS_PSUTIL
                    THEN LET ok == _is_crossbar_process(psutil_cmdline(parsed.v))
                         IN IF IsRaise(ok) THEN [ret |-> ok, remove |-> FALSE, warn |-> FALSE]
                            ELSE IF ~ok.v THEN [ret |-> PyNone, remove |-> FALSE, warn |-> TRUE]
                            ELSE [ret |-> parsed.data, remove |-> FALSE, warn |-> FALSE]
                    ELSE [ret |-> parsed.data, remove |-> FALSE, warn |-> FALSE]
               ELSE [ret |-> PyNone, remove |-> TRUE, warn |-> FALSE]

\* os.remove(fp) at lines 148 and 176, called while this process still holds the
\* file open for reading (inside the with block): on win32 an open file cannot
\* be deleted and the error is caught and logged; elsewhere the path is unlinked
os_remove_while_open(f) == IF win32 THEN f ELSE NoFile

\* os.remove(fp) of a file this process does not hold open; no other process
\* is taken to hold it open in a way that makes the removal fail
os_remove(f) == NoFile

(* ------------------------------------------------------------------ *)
(* The record written by start                                        *)
(* ------------------------------------------------------------------ *)

\* sys.argv of an invocation: crossbar <c>, or
\* python -m crossbar.controller.cli <c> --loglevel debug
sys_argv(kind, c) ==
    IF kind = "console" THEN <<"/bin/crossbar", c>>
    ELSE <<"crossbar/controller/cli.py", c, "--loglevel", "debug">>

\* vars(options) after run() has parsed the arguments and set options.argv
options_dump(av) ==
    [func |-> PyFunction,
     argv |-> PyList([i \in DOMAIN av |-> PyStr(av[i])]),
     cbdir |-> PyStr("/node/.crossbar"),
     loglevel |-> PyStr(IF \E i \in DOMAIN av : av[i] = "debug" THEN "debug" ELSE "info"),
     reactor |-> PyNone]

\* lines 474-475: the options without the dispatch function and the raw argv
record_options(av) ==
    LET od == options_dump(av)
    IN [x \in (DOMAIN od) \ {"func", "argv"} |-> od[x]]

\* lines 471-476
new_pid_data(p) ==
    PyDict([pid |-> PyInt(p),
            argv |-> PyList([i \in DOMAIN argv[p] |-> PyStr(argv[p][i])]),
            options |-> PyDict(record_options(argv[p]))])

(* ------------------------------------------------------------------ *)
(* Initial state                                                      *)
(* ------------------------------------------------------------------ *)

\* texts that are not a record: no JSON at all, JSON that is no object, an
\* object without 'pid', a 'pid' that is no integer (a string, null)
CorruptTexts ==
    { RawText("garbage"),
      JsonText(json_dumps(PyList(<<PyInt(1)>>))),
      JsonText(json_dumps(PyDict([argv |-> PyList(<<>>)]))),
      JsonText(json_dumps(PyDict([pid |-> PyStr("abc")]))),
      JsonText(json_dumps(PyDict([pid |-> PyNone]))) }

\* what the node directory can hold before any invocation: no file, or a file
\* that is no record (records of earlier instances, of live and of dead
\* processes, come about through start)
InitFiles == {NoFile} \cup { [exists |-> TRUE, ino |-> 0, text |-> x] : x \in CorruptTexts }

\* check_pid_exists has not been called directly
NoProbe == [pid |-> 0, errno |-> "none", ret |-> PyNone]
NoVerify == [called |-> FALSE, cmdline |-> <<>>, ret |-> PyNone]

NotExited == -1
Signalled == -9
Closed == -1

Init ==
    /\ win32 \in BOOLEAN
    /\ HAS_PSUTIL \in BOOLEAN
    /\ file \in InitFiles
    /\ ptable = [q \in PIDs |-> "none"]
    /\ pc = [p \in Procs |-> "idle"]
    /\ cmd = [p \in Procs |-> "status"]
    /\ cur = [p \in Procs |-> "status"]
    /\ argv = [p \in Procs |-> NoArgv]
    /\ rbuf = [p \in Procs |-> EmptyText]
    /\ pid_data = [p \in Procs |-> PyNone]
    /\ fd = [p \in Procs |-> Closed]
    /\ hook = [p \in Procs |-> FALSE]
    /\ worker = [p \in Procs |-> FALSE]
    /\ gotsig = [p \in Procs |-> FALSE]
    /\ cause = [p \in Procs |-> "none"]
    /\ handle = [p \in Procs |-> NoHandle]
    /\ waitres = [p \in Procs |-> "none"]
    /\ reported = [p \in Procs |-> 0]
    /\ nterm = [p \in Procs |-> 0]
    /\ nkill = [p \in Procs |-> 0]
    /\ sent = [p \in Procs |-> {}]
    /\ seen = [p \in Procs |-> "none"]
    /\ warned = [p \in Procs |-> FALSE]
    /\ probed = NoProbe
    /\ verified = NoVerify
    /\ exitcode = [p \in Procs |-> NotExited]
    /\ raised = [p \in Procs |-> "none"]

(* ------------------------------------------------------------------ *)
(* Processes: launch, exit, death                                     *)
(* ------------------------------------------------------------------ *)

\* what no step of an invocation changes: the platform, and the record of a
\* direct call of the prober
platform == <<win32, HAS_PSUTIL, probed, verified>>

\* every psutil.Process object that names PID q now names a dead process
MarkGone(h, q) ==
    [s \in Procs |-> IF h[s].pid = q THEN [h[s] EXCEPT !.gone = TRUE] ELSE h[s]]

\* the PID a value returned by check_is_running names
pid_of(data) == data.v["pid"].v

\* the PID named by the text of the file, 0 when it is no record
text_pid(text) ==
    LET parsed == parse_pid_data(text)
    IN IF IsRaise(parsed) THEN 0 ELSE parsed.v

\* How an invocation is launched decides what its command line looks like to
\* the identity verifier, which only ever inspects instances: the two ways are
\* told apart for start, the other subcommands are launched by the console script.
LaunchKinds(c) == IF c = "start" THEN OwnKinds ELSE {"console"}

\* a shell starts invocation p: crossbar <c>, as the process with PID p
Launch(p, c, kind) ==
    /\ pc[p] \in {"idle", "exited"}
    /\ ptable[p] = "none"
    /\ ptable' = [ptable EXCEPT ![p] = kind]
    /\ pc' = [pc EXCEPT ![p] = "lk_read"]
    /\ cmd' = [cmd EXCEPT ![p] = c]
    /\ cur' = [cur EXCEPT ![p] = IF c = "restart" THEN "stop" ELSE c]
    /\ argv' = [argv EXCEPT ![p] = sys_argv(kind, c)]
    /\ reported' = [reported EXCEPT ![p] = 0]
    /\ exitcode' = [exitcode EXCEPT ![p] = NotExited]
    /\ raised' = [raised EXCEPT ![p] = "none"]
    /\ warned' = [warned EXCEPT ![p] = FALSE]
    /\ UNCHANGED <<platform, file, rbuf, pid_data, fd, hook, worker, gotsig, cause,
                   handle, waitres, nterm, nkill, sent, seen>>

\* what an invocation knew ends with it
Forget(p) ==
    /\ cur' = [cur EXCEPT ![p] = "status"]
    /\ argv' = [argv EXCEPT ![p] = NoArgv]
    /\ hook' = [hook EXCEPT ![p] = FALSE]
    /\ worker' = [worker EXCEPT ![p] = FALSE]
    /\ gotsig' = [gotsig EXCEPT ![p] = FALSE]
    /\ cause' = [cause EXCEPT ![p] = "none"]
    /\ waitres' = [waitres EXCEPT ![p] = "none"]
    /\ nterm' = [nterm EXCEPT ![p] = 0]
    /\ nkill' = [nkill EXCEPT ![p] = 0]
    /\ sent' = [sent EXCEPT ![p] = {}]
    /\ seen' = [seen EXCEPT ![p] = "none"]

\* invocation p ends: sys.exit(code), a return from run(), or an exception
\* that nothing catches (exc)
Exit(p, code, exc) ==
    /\ pc' = [pc EXCEPT ![p] = "exited"]
    /\ ptable' = [ptable EXCEPT ![p] = "none"]
    /\ handle' = MarkGone([handle EXCEPT ![p] = NoHandle], p)
    /\ exitcode' = [exitcode EXCEPT ![p] = code]
    /\ raised' = [raised EXCEPT ![p] = exc]
    /\ rbuf' = [rbuf EXCEPT ![p] = EmptyText]
    /\ pid_data' = [pid_data EXCEPT ![p] = PyNone]
    /\ fd' = [fd EXCEPT ![p] = Closed]
    /\ Forget(p)

\* what Exit leaves alone besides the file
exitFrame == <<platform, cmd, reported, warned>>

\* what a step of the lookup or of the file handling leaves alone
runFrame == <<platform, cmd, cur, argv, hook, worker, gotsig, cause, waitres,
              reported, nterm, nkill, sent, seen, warned>>

\* the operating system has ended process p (a signal): nothing of p runs again
Reap(p) ==
    /\ pc[p] \notin {"idle", "exited"}
    /\ ptable[p] = "none"
    /\ pc' = [pc EXCEPT ![p] = "exited"]
    /\ handle' = [handle EXCEPT ![p] = NoHandle]
    /\ exitcode' = [exitcode EXCEPT ![p] = Signalled]
    /\ rbuf' = [rbuf EXCEPT ![p] = EmptyText]
    /\ pid_data' = [pid_data EXCEPT ![p] = PyNone]
    /\ fd' = [fd EXCEPT ![p] = Closed]
    /\ Forget(p)
    /\ UNCHANGED <<exitFrame, file, ptable, raised>>

\* invocation p is a running process
Running(p) == pc[p] \notin {"idle", "exited"} /\ ptable[p] \in OwnKinds

(* ------------------------------------------------------------------ *)
(* check_is_running, as the two steps other processes can interleave  *)
(* ------------------------------------------------------------------ *)

\* Python truth value of what check_is_running returned (None, or a dict)
py_truth(x) == x.t # "NoneType" /\ (x.t = "dict" => DOMAIN x.v # {})

\* lines 139-142: isfile, open, read (line 181 when there is no file)
LookupRead(p) ==
    /\ Running(p)
    /\ pc[p] = "lk_read"
    /\ IF file.exists
       THEN /\ rbuf' = [rbuf EXCEPT ![p] = file.text]
            /\ pc' = [pc EXCEPT ![p] = "lk_act"]
            /\ UNCHANGED pid_data
       ELSE /\ pid_data' = [pid_data EXCEPT ![p] = PyNone]
            /\ pc' = [pc EXCEPT ![p] = "decide"]
            /\ UNCHANGED rbuf
    /\ UNCHANGED <<runFrame, file, ptable, fd, handle, exitcode, raised>>

\* the kind of process the PID of a record names, "none" for a text that is no
\* record or names no process
probed_kind(text) ==
    LET q == text_pid(text)
    IN IF q \in PIDs THEN ptable[q] ELSE "none"

\* lines 143-181: parse, probe, verify, remove or return
LookupAct(p) ==
    /\ Running(p)
    /\ pc[p] = "lk_act"
    /\ LET r == check_is_running(rbuf[p])
       IN IF IsRaise(r.ret)
          THEN /\ Exit(p, 1, r.ret.v)
               /\ UNCHANGED <<exitFrame, file>>
          ELSE /\ pid_data' = [pid_data EXCEPT ![p] = r.ret]
               /\ file' = IF r.remove THEN os_remove_while_open(file) ELSE file
               /\ rbuf' = [rbuf EXCEPT ![p] = EmptyText]
               /\ seen' = [seen EXCEPT ![p] = probed_kind(rbuf[p])]
               /\ warned' = [warned EXCEPT ![p] = r.warn]
               /\ pc' = [pc EXCEPT ![p] = "decide"]
               /\ UNCHANGED <<platform, cmd, cur, argv, hook, worker, gotsig, cause,
                              waitres, reported, nterm, nkill, sent, ptable, fd, handle,
                              exitcode, raised>>

(* ------------------------------------------------------------------ *)
(* run_command_status                                                 *)
(* ------------------------------------------------------------------ *)

\* os.EX_UNAVAILABLE, where the platform defines it
EX_UNAVAILABLE == 69

\* getattr(os, 'EX_UNAVAILABLE', 1): win32 has no os.EX_UNAVAILABLE
unavailable_code == IF win32 THEN 1 ELSE EX_UNAVAILABLE

\* run_command_status with sys.exit(1) at line 347 in place of the
\* 'unavailable' code
StatusDecide_exit_one(p) ==
    /\ Running(p)
    /\ pc[p] = "decide" /\ cur[p] = "status"
    /\ IF pid_data[p] = PyNone
       THEN /\ Exit(p, 1, "none")
            /\ UNCHANGED reported
       ELSE /\ Exit(p, 0, "none")
            /\ reported' = [reported EXCEPT ![p] = pid_of(pid_data[p])]
    /\ UNCHANGED <<platform, cmd, file, warned>>

\* lines 342-351
StatusDecide(p) ==
    /\ Running(p)
    /\ pc[p] = "decide" /\ cur[p] = "status"
    /\ IF pid_data[p] = PyNone
       THEN /\ Exit(p, unavailable_code, "none")
            /\ UNCHANGED reported
       ELSE /\ Exit(p, 0, "none")
            /\ reported' = [reported EXCEPT ![p] = pid_of(pid_data[p])]
    /\ UNCHANGED <<platform, cmd, file, warned>>

(* ------------------------------------------------------------------ *)
(* run_command_start                                                  *)
(* ------------------------------------------------------------------ *)

\* open(fp, 'w'): creates the file, or truncates the one that is there
open_w(f, p) ==
    IF f.exists THEN [f EXCEPT !.text = EmptyText]
    ELSE [exists |-> TRUE, ino |-> p, text |-> EmptyText]

\* run_command_start with the open(fp, 'w') of line 468 moved above the test of
\* line 463: the file is truncated before start refuses
StartDecide_open_first(p) ==
    /\ Running(p)
    /\ pc[p] = "decide" /\ cur[p] = "start"
    /\ file' = open_w(file, p)
    /\ IF py_truth(pid_data[p])
       THEN /\ Exit(p, 1, "none")
            /\ UNCHANGED exitFrame
       ELSE /\ fd' = [fd EXCEPT ![p] = file'.ino]
            /\ pid_data' = [pid_data EXCEPT ![p] = PyNone]
            /\ pc' = [pc EXCEPT ![p] = "start_write"]
            /\ UNCHANGED <<runFrame, ptable, rbuf, handle, exitcode, raised>>

\* lines 463-468: refuse when an instance is running, else open the file for writing
StartDecide(p) ==
    /\ Running(p)
    /\ pc[p] = "decide" /\ cur[p] = "start"
    /\ IF py_truth(pid_data[p])
       THEN /\ Exit(p, 1, "none")
            /\ UNCHANGED <<exitFrame, file>>
       ELSE /\ file' = open_w(file, p)
            /\ fd' = [fd EXCEPT ![p] = file'.ino]
            /\ pid_data' = [pid_data EXCEPT ![p] = PyNone]
            /\ pc' = [pc EXCEPT ![p] = "start_write"]
            /\ UNCHANGED <<runFrame, ptable, rbuf, handle, exitcode, raised>>

\* fd.write(text) and the close at the end of the with block: the text lands in
\* the file the descriptor names, which is the file at the path only if nobody
\* has unlinked it since it was opened
write_close(f, ino, text) ==
    IF f.exists /\ f.ino = ino THEN [f EXCEPT !.text = text] ELSE f

\* what the file holds when only the beginning of the record has reached it
PrefixText == RawText("{")

\* line 477 as other processes can see it: the text reaches the file in more
\* than one write, and the first has been done
StartWritePart(p) ==
    /\ Running(p)
    /\ pc[p] = "start_write"
    /\ file.exists /\ file.ino = fd[p] /\ file.text = EmptyText
    /\ file' = [file EXCEPT !.text = PrefixText]
    /\ UNCHANGED <<runFrame, pc, ptable, rbuf, pid_data, fd, handle, exitcode, raised>>

\* lines 469-485: write the record, close the file, install remove_pid_file as
\* the reactor's 'after shutdown' trigger
StartWrite(p) ==
    /\ Running(p)
    /\ pc[p] = "start_write"
    /\ LET doc == json_dumps(new_pid_data(p))
       IN IF IsRaise(doc)
          THEN /\ Exit(p, 1, doc.v)
               /\ UNCHANGED <<exitFrame, file>>
          ELSE /\ file' = write_close(file, fd[p], JsonText(doc))
               /\ fd' = [fd EXCEPT ![p] = Closed]
               /\ hook' = [hook EXCEPT ![p] = TRUE]
               /\ pc' = [pc EXCEPT ![p] = "start_check"]
               /\ UNCHANGED <<platform, cmd, cur, argv, worker, gotsig, cause, waitres,
                              reported, nterm, nkill, sent, ptable, rbuf, pid_data,
                              handle, exitcode, raised, seen, warned>>

\* lines 508-511: InvalidConfigException, sys.exit(1); the reactor never ran
StartCheckInvalid(p) ==
    /\ Running(p)
    /\ pc[p] = "start_check"
    /\ Exit(p, 1, "none")
    /\ UNCHANGED <<exitFrame, file>>

\* lines 504-530: the configuration is valid; reactor.run(); once running,
\* start_crossbar calls node.start()
StartRun(p) ==
    /\ Running(p)
    /\ pc[p] = "start_check"
    /\ worker' = [worker EXCEPT ![p] = TRUE]
    /\ pc' = [pc EXCEPT ![p] = "running"]
    /\ UNCHANGED <<platform, file, ptable, cmd, cur, argv, rbuf, pid_data, fd, hook,
                   gotsig, cause, handle, waitres, reported, nterm, nkill, sent,
                   exitcode, raised, seen, warned>>

\* lines 528-532: reactor.run() raises; the exception is logged and
\* run_command_start returns without the reactor having shut down
StartRunFault(p) ==
    /\ Running(p)
    /\ pc[p] = "start_check"
    /\ Exit(p, 0, "none")
    /\ UNCHANGED <<exitFrame, file>>

\* the reactor stops: "worker" is on_error (lines 521-524), "signal" the
\* reactor's handler of SIGINT/SIGTERM, "normal" any other reactor.stop()
ReactorStop(p, why) ==
    /\ Running(p)
    /\ pc[p] = "running"
    /\ why = "signal" => gotsig[p]
    /\ cause' = [cause EXCEPT ![p] = why]
    /\ gotsig' = [gotsig EXCEPT ![p] = FALSE]
    /\ pc' = [pc EXCEPT ![p] = "shutdown"]
    /\ UNCHANGED <<platform, file, ptable, cmd, cur, argv, rbuf, pid_data, fd, hook,
                   worker, handle, waitres, reported, nterm, nkill, sent,
                   exitcode, raised, seen, warned>>

\* a shutdown trigger that leaves the file where it is
remove_pid_file_noop(f) == f

\* lines 481-484: the shutdown trigger
remove_pid_file(f) == IF f.exists THEN os_remove(f) ELSE f

\* the reactor fires its 'after shutdown' triggers
Shutdown(p) ==
    /\ Running(p)
    /\ pc[p] = "shutdown"
    /\ file' = IF hook[p] THEN remove_pid_file(file) ELSE file
    /\ pc' = [pc EXCEPT ![p] = "start_exit"]
    /\ UNCHANGED <<runFrame, ptable, rbuf, pid_data, fd, handle, exitcode, raised>>

\* reactor.run() returns, run_command_start returns, the process ends
StartExit(p) ==
    /\ Running(p)
    /\ pc[p] = "start_exit"
    /\ Exit(p, 0, "none")
    /\ UNCHANGED <<exitFrame, file>>

(* ------------------------------------------------------------------ *)
(* Signals                                                            *)
(* ------------------------------------------------------------------ *)

\* Whether the process with PID t ends at once when sig reaches it.  SIGKILL
\* always ends it; on win32 every request is TerminateProcess; elsewhere an
\* invocation of this program survives SIGTERM/SIGINT only while the reactor
\* has its handlers installed, and an unrelated program may end or carry on.
dies_of(sig, t) ==
    IF sig = "KILL" \/ win32 THEN {TRUE}
    ELSE IF ptable[t] \in OwnKinds
    THEN IF pc[t] \in {"running", "shutdown", "start_exit"} THEN {FALSE} ELSE {TRUE}
    ELSE {TRUE, FALSE}

\* invocation p sends sig to the live process with PID t; h is the handle table
\* after p's own update
Deliver(p, t, sig, h) ==
    /\ sent' = [sent EXCEPT ![p] = @ \cup {[to |-> t, sig |-> sig, kind |-> ptable[t]]}]
    /\ \E died \in dies_of(sig, t) :
          /\ ptable' = IF died THEN [ptable EXCEPT ![t] = "none"] ELSE ptable
          /\ handle' = IF died THEN MarkGone(h, t) ELSE h
          /\ gotsig' = IF ~died /\ ptable[t] \in OwnKinds /\ pc[t] = "running"
                       THEN [gotsig EXCEPT ![t] = TRUE] ELSE gotsig

(* ------------------------------------------------------------------ *)
(* run_command_stop and run_command_restart                           *)
(* ------------------------------------------------------------------ *)

\* run_command_stop whose 'nothing is running' branch honours exit=False as the
\* other branch does: inside restart it returns None to the caller
StopNothing_returns(p) ==
    /\ Running(p)
    /\ pc[p] = "decide" /\ cur[p] = "stop"
    /\ ~py_truth(pid_data[p])
    /\ IF cmd[p] = "stop"
       THEN /\ Exit(p, unavailable_code, "none")
            /\ UNCHANGED <<exitFrame, file>>
       ELSE /\ pc' = [pc EXCEPT ![p] = "restart_run"]
            /\ UNCHANGED <<runFrame, file, ptable, rbuf, pid_data, fd, handle, exitcode,
                           raised>>

\* run_command_stop with sys.exit(0) at line 388: 'nothing to stop' ends the
\* process with the success code
StopNothing_exit_zero(p) ==
    /\ Running(p)
    /\ pc[p] = "decide" /\ cur[p] = "stop"
    /\ ~py_truth(pid_data[p])
    /\ Exit(p, 0, "none")
    /\ UNCHANGED <<exitFrame, file>>

\* lines 362 and 386-388: nothing is running
StopNothing(p) ==
    /\ Running(p)
    /\ pc[p] = "decide" /\ cur[p] = "stop"
    /\ ~py_truth(pid_data[p])
    /\ Exit(p, unavailable_code, "none")
    /\ UNCHANGED <<exitFrame, file>>

\* lines 362-367: an instance is running; without psutil, os.kill(pid, signal.SIGINT)
StopInterrupt(p) ==
    /\ Running(p)
    /\ pc[p] = "decide" /\ cur[p] = "stop"
    /\ py_truth(pid_data[p]) /\ ~HAS_PSUTIL
    /\ LET t == pid_of(pid_data[p])
       IN IF os_kill_errno(t) # "ok"
          THEN /\ Exit(p, 1, "OSError")
               /\ UNCHANGED <<exitFrame, file>>
          ELSE /\ Deliver(p, t, "INT", handle)
               /\ pc' = [pc EXCEPT ![p] = "stop_done"]
               /\ UNCHANGED <<platform, file, cmd, cur, argv, rbuf, pid_data, fd, hook,
                              worker, cause, waitres, reported, nterm, nkill,
                              exitcode, raised, seen, warned>>

\* run_command_stop without the p.wait(timeout) of line 375: the kill request
\* follows the termination request at once
StopTerminate_no_wait(p) ==
    /\ Running(p)
    /\ pc[p] = "decide" /\ cur[p] = "stop"
    /\ py_truth(pid_data[p]) /\ HAS_PSUTIL
    /\ LET t == pid_of(pid_data[p])
       IN IF ~Alive(t)
          THEN /\ Exit(p, 1, "NoSuchProcess")
               /\ UNCHANGED <<exitFrame, file>>
          ELSE IF ptable[t] = "foreign"
          THEN /\ Exit(p, 1, "AccessDenied")
               /\ UNCHANGED <<exitFrame, file>>
          ELSE /\ Deliver(p, t, "TERM", [handle EXCEPT ![p] = [pid |-> t, gone |-> FALSE]])
               /\ nterm' = [nterm EXCEPT ![p] = @ + 1]
               /\ pc' = [pc EXCEPT ![p] = "stop_kill"]
               /\ UNCHANGED <<platform, file, cmd, cur, argv, rbuf, pid_data, fd, hook,
                              worker, cause, waitres, reported, nkill, exitcode, raised, seen, warned>>

\* lines 362-374: an instance is running; p = psutil.Process(pid), which raises NoSuchProcess for a PID
\* that names no process, then p.terminate()
StopTerminate(p) ==
    /\ Running(p)
    /\ pc[p] = "decide" /\ cur[p] = "stop"
    /\ py_truth(pid_data[p]) /\ HAS_PSUTIL
    /\ LET t == pid_of(pid_data[p])
       IN IF ~Alive(t)
          THEN /\ Exit(p, 1, "NoSuchProcess")
               /\ UNCHANGED <<exitFrame, file>>
          ELSE IF ptable[t] = "foreign"
          THEN /\ Exit(p, 1, "AccessDenied")
               /\ UNCHANGED <<exitFrame, file>>
          ELSE /\ Deliver(p, t, "TERM", [handle EXCEPT ![p] = [pid |-> t, gone |-> FALSE]])
               /\ nterm' = [nterm EXCEPT ![p] = @ + 1]
               /\ pc' = [pc EXCEPT ![p] = "stop_wait"]
               /\ UNCHANGED <<platform, file, cmd, cur, argv, rbuf, pid_data, fd, hook,
                              worker, cause, waitres, reported, nkill, exitcode, raised, seen, warned>>

\* line 375: p.wait(timeout=5) returns because the process has ended
StopWaitExited(p) ==
    /\ Running(p)
    /\ pc[p] = "stop_wait"
    /\ handle[p].gone
    /\ waitres' = [waitres EXCEPT ![p] = "exited"]
    /\ pc' = [pc EXCEPT ![p] = "stop_done"]
    /\ UNCHANGED <<platform, file, ptable, cmd, cur, argv, rbuf, pid_data, fd, hook,
                   worker, gotsig, cause, handle, reported, nterm, nkill, sent,
                   exitcode, raised, seen, warned>>

\* p.wait() without a timeout: TimeoutExpired is never raised, the call returns
\* only when the process has ended
StopWaitTimeout_unbounded(p) ==
    /\ Running(p)
    /\ pc[p] = "stop_wait"
    /\ FALSE
    /\ UNCHANGED vars

\* lines 375-376: the timeout expires with the process still there, TimeoutExpired
StopWaitTimeout(p) ==
    /\ Running(p)
    /\ pc[p] = "stop_wait"
    /\ ~handle[p].gone
    /\ waitres' = [waitres EXCEPT ![p] = "timeout"]
    /\ pc' = [pc EXCEPT ![p] = "stop_kill"]
    /\ UNCHANGED <<platform, file, ptable, cmd, cur, argv, rbuf, pid_data, fd, hook,
                   worker, gotsig, cause, handle, reported, nterm, nkill, sent,
                   exitcode, raised, seen, warned>>

\* lines 377-379: p.kill(); psutil raises NoSuchProcess when the process the
\* handle names has ended in the meantime
StopKill(p) ==
    /\ Running(p)
    /\ pc[p] = "stop_kill"
    /\ IF handle[p].gone
       THEN /\ Exit(p, 1, "NoSuchProcess")
            /\ UNCHANGED <<exitFrame, file>>
       ELSE /\ Deliver(p, handle[p].pid, "KILL", handle)
            /\ nkill' = [nkill EXCEPT ![p] = @ + 1]
            /\ pc' = [pc EXCEPT ![p] = "stop_done"]
            /\ UNCHANGED <<platform, file, cmd, cur, argv, rbuf, pid_data, fd, hook,
                           worker, cause, waitres, reported, nterm, exitcode, raised, seen, warned>>

\* lines 380-385: exit=True for the stop subcommand, exit=False from restart
StopDone(p) ==
    /\ Running(p)
    /\ pc[p] = "stop_done"
    /\ IF cmd[p] = "stop"
       THEN /\ Exit(p, 0, "none")
            /\ UNCHANGED <<exitFrame, file>>
       ELSE /\ pc' = [pc EXCEPT ![p] = "restart_run"]
            /\ handle' = [handle EXCEPT ![p] = NoHandle]
            /\ UNCHANGED <<runFrame, file, ptable, rbuf, pid_data, fd, exitcode, raised>>

\* lines 540-544: the saved argv with 'restart' replaced by 'start'
restart_argv(data) ==
    LET saved == data.v["argv"].v
        prog == saved[1].v
        args == [i \in 1..(Len(saved) - 1) |->
                    IF saved[i + 1].v # "restart" THEN saved[i + 1].v ELSE "start"]
    IN <<prog, args>>

\* lines 757-761: options.argv of the re-invoked run(prog, args)
run_argv(prog, args, own) == IF args # <<>> THEN <<prog>> \o args ELSE own

\* lines 540-545 and run(): the command pipeline runs again in this process
RestartRun(p) ==
    /\ Running(p)
    /\ pc[p] = "restart_run"
    /\ IF ~py_truth(pid_data[p])
       THEN \* pid_data['argv'] on None
            /\ Exit(p, 1, "TypeError")
            /\ UNCHANGED <<exitFrame, file>>
       ELSE /\ LET pa == restart_argv(pid_data[p])
               IN argv' = [argv EXCEPT ![p] = run_argv(pa[1], pa[2], argv[p])]
            /\ cur' = [cur EXCEPT ![p] = "start"]
            /\ pid_data' = [pid_data EXCEPT ![p] = PyNone]
            /\ pc' = [pc EXCEPT ![p] = "lk_read"]
            /\ UNCHANGED <<platform, file, ptable, cmd, rbuf, fd, hook, worker, gotsig,
                           cause, handle, waitres, reported, nterm, nkill, sent, exitcode,
                           raised, seen, warned>>

(* ------------------------------------------------------------------ *)
(* Other programs                                                     *)
(* ------------------------------------------------------------------ *)

\* PID q is one this program can come to look at: the file, a value returned
\* by check_is_running or a text it has read names it
Referenced(q) ==
    \/ file.exists /\ text_pid(file.text) = q
    \/ \E p \in Procs : /\ pc[p] \notin {"idle", "exited"}
                        /\ \/ py_truth(pid_data[p]) /\ pid_of(pid_data[p]) = q
                           \/ pc[p] = "lk_act" /\ text_pid(rbuf[p]) = q

\* an unrelated program starts and is given PID q (PID reuse when q was used before)
SpawnOther(q, kind) ==
    /\ ptable[q] = "none"
    /\ q \in Procs => pc[q] \in {"idle", "exited"}
    /\ Referenced(q)
    /\ ptable' = [ptable EXCEPT ![q] = kind]
    /\ UNCHANGED <<platform, file, pc, cmd, cur, argv, rbuf, pid_data, fd, hook, worker,
                   gotsig, cause, handle, waitres, reported, nterm, nkill, sent,
                   exitcode, raised, seen, warned>>

\* an unrelated program ends
ExitOther(q) ==
    /\ ptable[q] \in OtherKinds
    /\ ptable' = [ptable EXCEPT ![q] = "none"]
    /\ handle' = MarkGone(handle, q)
    /\ UNCHANGED <<platform, file, pc, cmd, cur, argv, rbuf, pid_data, fd, hook, worker,
                   gotsig, cause, waitres, reported, nterm, nkill, sent,
                   exitcode, raised, seen, warned>>

(* ------------------------------------------------------------------ *)
(* Specification                                                      *)
(* ------------------------------------------------------------------ *)

\* the steps of run_command_stop, from its lookup on
StopStep(p) ==
    \/ StopNothing(p) \/ StopInterrupt(p) \/ StopTerminate(p) \/ StopWaitExited(p)
    \/ StopWaitTimeout(p) \/ StopKill(p) \/ StopDone(p)

Next ==
    \/ \E p \in Procs, c \in Commands : \E kind \in LaunchKinds(c) : Launch(p, c, kind)
    \/ \E p \in Procs : Reap(p)
    \/ \E p \in Procs : LookupRead(p)
    \/ \E p \in Procs : LookupAct(p)
    \/ \E p \in Procs : StatusDecide(p)
    \/ \E p \in Procs : StartDecide(p)
    \/ \E p \in Procs : StartWritePart(p)
    \/ \E p \in Procs : StartWrite(p)
    \/ \E p \in Procs : StartCheckInvalid(p)
    \/ \E p \in Procs : StartRun(p)
    \/ \E p \in Procs : StartRunFault(p)
    \/ \E p \in Procs, why \in {"worker", "signal", "normal"} : ReactorStop(p, why)
    \/ \E p \in Procs : Shutdown(p)
    \/ \E p \in Procs : StartExit(p)
    \/ \E p \in Procs : StopNothing(p)
    \/ \E p \in Procs : StopInterrupt(p)
    \/ \E p \in Procs : StopTerminate(p)
    \/ \E p \in Procs : StopWaitExited(p)
    \/ \E p \in Procs : StopWaitTimeout(p)
    \/ \E p \in Procs : StopKill(p)
    \/ \E p \in Procs : StopDone(p)
    \/ \E q \in PIDs, kind \in OtherKinds : SpawnOther(q, kind)
    \/ \E q \in PIDs : ExitOther(q)

Spec == Init /\ [][Next]_vars

(* ------------------------------------------------------------------ *)
(* Specifications with a restricted schedule or with fairness         *)
(* ------------------------------------------------------------------ *)

\* start p is between the read of its lookup and the end of its register
InGuard(p) ==
    Running(p) /\ cur[p] = "start" /\ pc[p] \in {"lk_act", "decide", "start_write"}

\* no start is between its lookup and its register
Quiet == \A q \in Procs : ~InGuard(q)

\* Next with the lookup and the register of every start as one critical
\* section: while a start is inside it, only that start takes steps
NextAtomic ==
    \/ \E p \in Procs, c \in Commands : \E kind \in LaunchKinds(c) : Quiet /\ Launch(p, c, kind)
    \/ \E p \in Procs : Quiet /\ Reap(p)
    \/ \E p \in Procs : Quiet /\ LookupRead(p)
    \/ \E p \in Procs : (Quiet \/ InGuard(p)) /\ LookupAct(p)
    \/ \E p \in Procs : Quiet /\ StatusDecide(p)
    \/ \E p \in Procs : InGuard(p) /\ StartDecide(p)
    \/ \E p \in Procs : InGuard(p) /\ StartWritePart(p)
    \/ \E p \in Procs : InGuard(p) /\ StartWrite(p)
    \/ \E p \in Procs : Quiet /\ StartCheckInvalid(p)
    \/ \E p \in Procs : Quiet /\ StartRun(p)
    \/ \E p \in Procs : Quiet /\ StartRunFault(p)
    \/ \E p \in Procs, why \in {"worker", "signal", "normal"} : Quiet /\ ReactorStop(p, why)
    \/ \E p \in Procs : Quiet /\ Shutdown(p)
    \/ \E p \in Procs : Quiet /\ StartExit(p)
    \/ \E p \in Procs : Quiet /\ StopNothing(p)
    \/ \E p \in Procs : Quiet /\ StopInterrupt(p)
    \/ \E p \in Procs : Quiet /\ StopTerminate(p)
    \/ \E p \in Procs : Quiet /\ StopWaitExited(p)
    \/ \E p \in Procs : Quiet /\ StopWaitTimeout(p)
    \/ \E p \in Procs : Quiet /\ StopKill(p)
    \/ \E p \in Procs : Quiet /\ StopDone(p)
    \/ \E q \in PIDs, kind \in OtherKinds : Quiet /\ SpawnOther(q, kind)
    \/ \E q \in PIDs : Quiet /\ ExitOther(q)

SpecAtomic == Init /\ [][NextAtomic]_vars

\* NextAtomic with probes that answer truthfully: every invocation is launched
\* by the console script, which the verifier accepts, and the unrelated
\* programs are shells, which it rejects
NextTruthful ==
    \/ \E p \in Procs, c \in Commands : Quiet /\ Launch(p, c, "console")
    \/ \E p \in Procs : Quiet /\ Reap(p)
    \/ \E p \in Procs : Quiet /\ LookupRead(p)
    \/ \E p \in Procs : (Quiet \/ InGuard(p)) /\ LookupAct(p)
    \/ \E p \in Procs : Quiet /\ StatusDecide(p)
    \/ \E p \in Procs : InGuard(p) /\ StartDecide(p)
    \/ \E p \in Procs : InGuard(p) /\ StartWritePart(p)
    \/ \E p \in Procs : InGuard(p) /\ StartWrite(p)
    \/ \E p \in Procs : Quiet /\ StartCheckInvalid(p)
    \/ \E p \in Procs : Quiet /\ StartRun(p)
    \/ \E p \in Procs : Quiet /\ StartRunFault(p)
    \/ \E p \in Procs, why \in {"worker", "signal", "normal"} : Quiet /\ ReactorStop(p, why)
    \/ \E p \in Procs : Quiet /\ Shutdown(p)
    \/ \E p \in Procs : Quiet /\ StartExit(p)
    \/ \E p \in Procs : Quiet /\ StopNothing(p)
    \/ \E p \in Procs : Quiet /\ StopInterrupt(p)
    \/ \E p \in Procs : Quiet /\ StopTerminate(p)
    \/ \E p \in Procs : Quiet /\ StopWaitExited(p)
    \/ \E p \in Procs : Quiet /\ StopWaitTimeout(p)
    \/ \E p \in Procs : Quiet /\ StopKill(p)
    \/ \E p \in Procs : Quiet /\ StopDone(p)
    \/ \E q \in PIDs : Quiet /\ SpawnOther(q, "bash")
    \/ \E q \in PIDs : Quiet /\ ExitOther(q)

SpecTruthful == Init /\ [][NextTruthful]_vars

\* what the operating system and the interpreter guarantee an invocation of
\* stop: its synchronous code keeps running (lookup, decision, signal, the
\* return of p.wait at the target's end or at the timeout), and a process a
\* signal has ended is reaped
StopProgress(p) ==
    \/ cur[p] = "stop" /\ (LookupRead(p) \/ LookupAct(p) \/ StopStep(p))
    \/ Reap(p)

\* Next with every invocation slot used once: PID p is given to one invocation
\* and never to a second one (unrelated programs still take the PIDs of ended
\* invocations)
NextOnce ==
    \/ \E p \in Procs, c \in Commands : \E kind \in LaunchKinds(c) :
          pc[p] = "idle" /\ Launch(p, c, kind)
    \/ \E p \in Procs : Reap(p)
    \/ \E p \in Procs : LookupRead(p)
    \/ \E p \in Procs : LookupAct(p)
    \/ \E p \in Procs : StatusDecide(p)
    \/ \E p \in Procs : StartDecide(p)
    \/ \E p \in Procs : StartWritePart(p)
    \/ \E p \in Procs : StartWrite(p)
    \/ \E p \in Procs : StartCheckInvalid(p)
    \/ \E p \in Procs : StartRun(p)
    \/ \E p \in Procs : StartRunFault(p)
    \/ \E p \in Procs, why \in {"worker", "signal", "normal"} : ReactorStop(p, why)
    \/ \E p \in Procs : Shutdown(p)
    \/ \E p \in Procs : StartExit(p)
    \/ \E p \in Procs : StopStep(p)
    \/ \E q \in PIDs, kind \in OtherKinds : SpawnOther(q, kind)
    \/ \E q \in PIDs : ExitOther(q)

FairSpec == Init /\ [][NextOnce]_vars /\ \A p \in Procs : WF_vars(StopProgress(p))

\* The subcommands with restart among them, every invocation slot used once
NextRestart ==
    \/ \E p \in Procs, c \in Commands \cup {"restart"} : \E kind \in LaunchKinds(c) :
          pc[p] = "idle" /\ Launch(p, c, kind)
    \/ \E p \in Procs : Reap(p)
    \/ \E p \in Procs : LookupRead(p)
    \/ \E p \in Procs : LookupAct(p)
    \/ \E p \in Procs : StatusDecide(p)
    \/ \E p \in Procs : StartDecide(p)
    \/ \E p \in Procs : StartWritePart(p)
    \/ \E p \in Procs : StartWrite(p)
    \/ \E p \in Procs : StartCheckInvalid(p)
    \/ \E p \in Procs : StartRun(p)
    \/ \E p \in Procs : StartRunFault(p)
    \/ \E p \in Procs, why \in {"worker", "signal", "normal"} : ReactorStop(p, why)
    \/ \E p \in Procs : Shutdown(p)
    \/ \E p \in Procs : StartExit(p)
    \/ \E p \in Procs : StopStep(p)
    \/ \E p \in Procs : RestartRun(p)
    \/ \E q \in PIDs, kind \in OtherKinds : SpawnOther(q, kind)
    \/ \E q \in PIDs : ExitOther(q)

SpecRestart == Init /\ [][NextRestart]_vars

(* ------------------------------------------------------------------ *)
(* The prober on its own: check_pid_exists(pid) called directly       *)
(* ------------------------------------------------------------------ *)

\* what may hold a PID when the prober is called: nothing, an instance, another
\* program of the same user, a process of another user
ProbeKinds == {"none", "console", "bash", "foreign"}

InitProber ==
    /\ win32 \in BOOLEAN
    /\ HAS_PSUTIL \in BOOLEAN
    /\ file \in InitFiles
    /\ ptable \in [PIDs -> ProbeKinds]
    /\ pc = [p \in Procs |-> "idle"]
    /\ cmd = [p \in Procs |-> "status"]
    /\ cur = [p \in Procs |-> "status"]
    /\ argv = [p \in Procs |-> NoArgv]
    /\ rbuf = [p \in Procs |-> EmptyText]
    /\ pid_data = [p \in Procs |-> PyNone]
    /\ fd = [p \in Procs |-> Closed]
    /\ hook = [p \in Procs |-> FALSE]
    /\ worker = [p \in Procs |-> FALSE]
    /\ gotsig = [p \in Procs |-> FALSE]
    /\ cause = [p \in Procs |-> "none"]
    /\ handle = [p \in Procs |-> NoHandle]
    /\ waitres = [p \in Procs |-> "none"]
    /\ reported = [p \in Procs |-> 0]
    /\ nterm = [p \in Procs |-> 0]
    /\ nkill = [p \in Procs |-> 0]
    /\ sent = [p \in Procs |-> {}]
    /\ seen = [p \in Procs |-> "none"]
    /\ warned = [p \in Procs |-> FALSE]
    /\ probed = NoProbe
    /\ verified = NoVerify
    /\ exitcode = [p \in Procs |-> NotExited]
    /\ raised = [p \in Procs |-> "none"]

\* check_pid_exists(q), lines 89-112
Probe(q) ==
    /\ probed' = [pid |-> q, errno |-> os_kill_errno(q), ret |-> check_pid_exists(q)]
    /\ UNCHANGED <<win32, HAS_PSUTIL, file, ptable, pc, cmd, cur, argv, rbuf, pid_data,
                   fd, hook, worker, gotsig, cause, handle, waitres, reported, nterm,
                   nkill, sent, seen, warned, verified, exitcode, raised>>

NextProber == \E q \in PIDs : Probe(q)

SpecProber == InitProber /\ [][NextProber]_vars

(* ------------------------------------------------------------------ *)
(* The verifier on its own: _is_crossbar_process(cmdline) called      *)
(* directly                                                           *)
(* ------------------------------------------------------------------ *)

\* the longest command line given to the verifier
MaxTokens == 3

\* the tokens command lines are made of
Tokens == {T_crossbar, T_controller, T_python, T_script, T_dash_m, T_module,
           T_bash, T_logname}

\* the command lines psutil can report: none to MaxTokens tokens
CmdLines == UNION { [1..n -> Tokens] : n \in 0..MaxTokens }

\* _is_crossbar_process(cl), lines 115-124: one call
Verify(cl) ==
    /\ ~verified.called
    /\ verified' = [called |-> TRUE, cmdline |-> cl, ret |-> _is_crossbar_process(cl)]
    /\ UNCHANGED <<win32, HAS_PSUTIL, file, ptable, pc, cmd, cur, argv, rbuf, pid_data,
                   fd, hook, worker, gotsig, cause, handle, waitres, reported, nterm,
                   nkill, sent, seen, warned, probed, exitcode, raised>>

NextVerifier == \E cl \in CmdLines : Verify(cl)

SpecVerifier == Init /\ [][NextVerifier]_vars

(* ------------------------------------------------------------------ *)
(* Claims                                                             *)
(* ------------------------------------------------------------------ *)

\* invocation p takes a step
Steps(p) == pc'[p] # pc[p]

\* the text is no record: parsing it raises (JSON, the pid key, the integer)
NotARecord(text) == IsRaise(parse_pid_data(text))

\* the processes that passed start's guard (lookup, then register) and have
\* not begun to leave
Instances ==
    {p \in Procs : Running(p) /\ cur[p] = "start"
                   /\ pc[p] \in {"start_check", "running", "shutdown"}}

\* C1: in every reachable state at most one process that passed start's guard
\* (lookup, then register) is alive.  Checked with every start's lookup and
\* register as one critical section, so that the race the design accepts
\* between the two is not what refutes it.
C1_AtMostOneInstance == Cardinality(Instances) <= 1

\* start's lookup has returned a record: the verdict is Running
StartSeesRunning(p) ==
    Running(p) /\ pc[p] = "decide" /\ cur[p] = "start" /\ py_truth(pid_data[p])

\* C2: when start's lookup yields Running, start exits with code 1 and does
\* nothing else: the record file is unchanged, no file is left open, no exit
\* hook is installed and the worker entry point is not invoked.
C2_StartRefusesWhenRunning ==
    [][\A p \in Procs :
          (StartSeesRunning(p) /\ Steps(p)) =>
              /\ pc'[p] = "exited" /\ exitcode'[p] = 1 /\ raised'[p] = "none"
              /\ file' = file
              /\ fd'[p] = Closed /\ ~hook'[p] /\ ~worker'[p]]_vars

\* a start about to decide with the verdict Running for another, live process
C2_Witness ==
    \E p \in Procs :
        /\ StartSeesRunning(p)
        /\ pid_of(pid_data[p]) # p
        /\ Alive(pid_of(pid_data[p]))
        /\ file.exists /\ text_pid(file.text) = pid_of(pid_data[p])

\* the lookup of p returns NotRunning and no file is left
ReturnsNotRunningNoFile(p) ==
    pc'[p] = "decide" /\ pid_data'[p] = PyNone /\ raised'[p] = "none" /\ ~file'.exists

\* C3: for every record file that is absent or whose content is not a valid
\* record (no JSON, JSON without a pid key, JSON that is no object, a pid that
\* is no integer), lookup returns NotRunning without raising, and after it
\* returns no record file exists.
C3_CorruptOrAbsentIsNotRunning ==
    [][\A p \in Procs :
          /\ (Running(p) /\ pc[p] = "lk_read" /\ ~file.exists /\ Steps(p))
                => ReturnsNotRunningNoFile(p)
          /\ (Running(p) /\ pc[p] = "lk_act" /\ NotARecord(rbuf[p]) /\ Steps(p))
                => ReturnsNotRunningNoFile(p)]_vars

\* the text is a record and the liveness prober finds its PID dead
ConfirmedDead(text) ==
    ~NotARecord(text) /\ check_pid_exists(text_pid(text)) = PyBool(FALSE)

\* C4: for every parsable record whose PID the liveness prober finds to name
\* no existing process, lookup removes the record file and returns NotRunning
\* without raising; a second lookup right after it finds no file and returns
\* NotRunning again.
C4_DeadPidRecordRemoved ==
    [][\A p \in Procs :
          /\ (Running(p) /\ pc[p] = "lk_act" /\ ConfirmedDead(rbuf[p]) /\ Steps(p))
                => ReturnsNotRunningNoFile(p)
          /\ (Running(p) /\ pc[p] = "lk_read" /\ ~file.exists /\ Steps(p))
                => (pc'[p] = "decide" /\ pid_data'[p] = PyNone /\ ~file'.exists)]_vars

\* identity verification is available and the record file names a live process
\* of an unrelated program that the verifier rejects
RecordOfRejected ==
    /\ HAS_PSUTIL
    /\ file.exists /\ ~NotARecord(file.text)
    /\ LET q == text_pid(file.text)
       IN /\ q \in PIDs /\ ptable[q] \in OtherKinds
          /\ _is_crossbar_process(psutil_cmdline(q)) = PyBool(FALSE)

\* p runs its command in that state: it has not read yet, or it read this
\* very text, or its lookup probed an unrelated program and returned nothing
RunsOnRejected(p) ==
    /\ Running(p) /\ RecordOfRejected
    /\ \/ pc[p] = "lk_read"
       \/ pc[p] = "lk_act" /\ rbuf[p] = file.text
       \/ pc[p] = "decide" /\ seen[p] \in OtherKinds /\ ~py_truth(pid_data[p])

\* C5: while a record names a live PID that fails identity verification
\* (verification available), no step of a lookup, status, stop or start run in
\* that state deletes the record file or changes its content.
C5_IndeterminateLeavesFile ==
    [][\A p \in Procs : (RunsOnRejected(p) /\ Steps(p)) => file' = file]_vars

\* stop p found, at its lookup, the record's PID alive and naming an unrelated
\* program, with identity verification available
StopFoundUnrelated(p) ==
    HAS_PSUTIL /\ cur[p] = "stop" /\ pc[p] \notin {"idle", "exited"}
    /\ seen[p] \in OtherKinds

\* C6 as stated: with identity verification available and the record's PID
\* alive but belonging to an unrelated program, stop sends no termination,
\* interrupt or kill request.
C6_NoSignalToUnrelated ==
    \A p \in Procs : StopFoundUnrelated(p) => sent[p] = {}

\* C6 as amended: the same for an unrelated program whose command line the
\* identity verifier rejects (no second token containing 'crossbar', first
\* token not 'crossbar-controller').
C6_NoSignalToRejected ==
    \A p \in Procs :
        (StopFoundUnrelated(p)
         /\ _is_crossbar_process(cmdline_of(seen[p])) = PyBool(FALSE))
            => sent[p] = {}

\* a stop has looked up a record whose PID names a live, rejected, unrelated
\* program and is about to decide
C6_Witness ==
    \E p \in Procs :
        /\ StopFoundUnrelated(p) /\ Running(p) /\ pc[p] = "decide"
        /\ _is_crossbar_process(cmdline_of(seen[p])) = PyBool(FALSE)
        /\ RecordOfRejected

\* p has registered and the file holds what p wrote
Registered(p) ==
    /\ Running(p) /\ cur[p] = "start" /\ pc[p] = "start_check"
    /\ file.exists /\ file.text = JsonText(json_dumps(new_pid_data(p)))

\* C7: register followed immediately by lookup in the same process yields
\* Running with a record whose pid is the process's own, whose argv is the
\* registered argv and whose options are the registered options without the
\* dispatch function and the raw argv; the lookup removes nothing.
C7_RegisterLookupRoundTrip ==
    \A p \in Procs :
        Registered(p) =>
            LET r == check_is_running(file.text)
            IN /\ r.ret.t = "dict"
               /\ DOMAIN r.ret.v = {"pid", "argv", "options"}
               /\ r.ret.v["pid"] = PyInt(p)
               /\ r.ret.v["argv"] = PyList([i \in DOMAIN argv[p] |-> PyStr(argv[p][i])])
               /\ r.ret.v["options"] = PyDict(record_options(argv[p]))
               /\ ~r.remove

\* stop p is on the path with process inspection, past its termination request
Terminating(p) ==
    HAS_PSUTIL /\ cur[p] = "stop" /\ pc[p] \in {"stop_wait", "stop_kill", "stop_done"}

\* C8: with process inspection, terminate first sends one graceful-termination
\* request; if the target exits within the timeout no kill request is sent; if
\* the target is still alive when the timeout expires exactly one kill request
\* is sent, after the timeout and never before it.
C8_TerminateEscalation ==
    \A p \in Procs :
        Terminating(p) =>
            /\ nterm[p] = 1
            /\ nkill[p] \in {0, 1}
            /\ Cardinality({m \in sent[p] : m.sig = "TERM"}) = 1
            /\ pc[p] \in {"stop_wait", "stop_kill"} => nkill[p] = 0
            /\ pc[p] = "stop_wait" => waitres[p] = "none"
            /\ pc[p] = "stop_kill" => waitres[p] = "timeout"
            /\ waitres[p] = "exited" => nkill[p] = 0
            /\ nkill[p] = 1 => /\ waitres[p] = "timeout"
                               /\ Cardinality({m \in sent[p] : m.sig = "KILL"}) = 1
            /\ (pc[p] = "stop_done" /\ waitres[p] = "timeout") => nkill[p] = 1

\* a stop that escalated: the timeout expired and the kill request went out
C8_Witness ==
    \E p \in Procs :
        /\ Terminating(p) /\ pc[p] = "stop_done"
        /\ waitres[p] = "timeout" /\ nterm[p] = 1 /\ nkill[p] = 1

\* stop's lookup returned Running for a process that was alive then and has
\* ended since
TargetGone(p) ==
    /\ Running(p) /\ pc[p] = "decide" /\ cur[p] = "stop"
    /\ py_truth(pid_data[p]) /\ seen[p] \in OwnKinds
    /\ ~Alive(pid_of(pid_data[p]))

\* C9: if the target exits on its own after stop's lookup returned Running and
\* before the termination request, terminate reports success, sends no signal
\* and raises no error, with process inspection and without it.
C9_TargetAlreadyGoneIsSuccess ==
    [][\A p \in Procs :
          (TargetGone(p) /\ Steps(p)) =>
              /\ raised'[p] = "none"
              /\ exitcode'[p] \in {NotExited, 0}
              /\ sent'[p] = {}]_vars

\* an invocation of stop is under way
StopUnderWay(p) == cur[p] = "stop" /\ pc[p] \notin {"idle", "exited"}

\* C10: every invocation of stop eventually completes, whatever the target
\* does: the wait for the target's exit ends when the target exits or when the
\* timeout expires, and stop proceeds after either.
C10_StopCompletes ==
    \A p \in Procs : StopUnderWay(p) ~> (pc[p] = "exited")

\* a stop blocked in p.wait on a target that is still there
C10_Witness ==
    \E p \in Procs :
        /\ StopUnderWay(p) /\ Running(p) /\ pc[p] = "stop_wait"
        /\ ~handle[p].gone /\ Alive(handle[p].pid)

\* the file holds the record of the live instance t, as t wrote it
RecordOfLive(t) ==
    /\ t \in Instances
    /\ file.exists /\ file.text = JsonText(json_dumps(new_pid_data(t)))

\* q is in the lookup of command c and has read what the file holds now
LooksUp(q, c) ==
    Running(q) /\ cur[q] = c /\ pc[q] = "lk_act" /\ rbuf[q] = file.text

\* C11: from a directory with no record, start writes a record with its own
\* PID; a status run while that instance is alive exits 0 reporting that PID;
\* a stop finds the instance and sends it a graceful termination; a status run
\* when the instance has ended (no file, or a record whose process is gone)
\* exits with the 'unavailable' code.
C11_StartStatusStopStatus ==
    [][\A q \in Procs :
          /\ (Running(q) /\ pc[q] = "start_write" /\ pc'[q] = "start_check"
              /\ file.exists /\ file.ino = fd[q])
                => (file'.exists /\ text_pid(file'.text) = q)
          /\ \A t \in Procs \ {q} :
                ((LooksUp(q, "status") \/ LooksUp(q, "stop")) /\ RecordOfLive(t) /\ Steps(q))
                    => (pc'[q] = "decide" /\ pid_data'[q] = new_pid_data(t))
          /\ (Running(q) /\ cur[q] = "status" /\ pc[q] = "decide"
              /\ py_truth(pid_data[q]) /\ Steps(q))
                => (exitcode'[q] = 0 /\ reported'[q] = pid_of(pid_data[q]))
          /\ (Running(q) /\ cur[q] = "stop" /\ pc[q] = "decide"
              /\ py_truth(pid_data[q]) /\ Alive(pid_of(pid_data[q])) /\ Steps(q))
                => (\E m \in sent'[q] : m.to = pid_of(pid_data[q]) /\ m.sig \in {"TERM", "INT"})
          /\ (LooksUp(q, "status") /\ ~NotARecord(rbuf[q])
              /\ ~Alive(text_pid(rbuf[q])) /\ Steps(q))
                => (pc'[q] = "decide" /\ pid_data'[q] = PyNone)
          /\ (Running(q) /\ cur[q] = "status" /\ pc[q] = "lk_read" /\ ~file.exists /\ Steps(q))
                => (pc'[q] = "decide" /\ pid_data'[q] = PyNone)
          /\ (Running(q) /\ cur[q] = "status" /\ pc[q] = "decide"
              /\ ~py_truth(pid_data[q]) /\ Steps(q))
                => exitcode'[q] = unavailable_code]_vars

\* C12: on POSIX the prober returns True when a process has the PID, also when
\* os.kill is refused with EPERM, returns False when no process has it, and
\* raises nothing
C12_ProberPosix ==
    (~win32 /\ probed.pid # 0) => probed.ret = PyBool(Alive(probed.pid))

\* p has written its record and now ends by itself: sys.exit, or a return
\* from run_command_start
LeavesAfterRegister(p) ==
    /\ Running(p) /\ cur[p] = "start"
    /\ pc[p] \in {"start_check", "start_exit"}
    /\ pc'[p] = "exited"

\* C13: a process that has written its record in start and ends by any path
\* but a kill (run-loop shutdown, normal or after a signal, a configuration
\* that fails validation, a fault raised by the run loop) leaves no record
\* naming itself behind.
C13_RecordRemovedOnEveryExit ==
    [][\A p \in Procs :
          LeavesAfterRegister(p) => ~(file'.exists /\ text_pid(file'.text) = p)]_vars

\* the verdict of p's lookup was Running: it returned a record
VerdictRunning(p) == py_truth(pid_data[p])

\* the verdict was Indeterminate: verification available, the record's PID
\* alive, its command line rejected
VerdictIndeterminate(p) ==
    /\ ~py_truth(pid_data[p])
    /\ HAS_PSUTIL /\ seen[p] # "none"
    /\ _is_crossbar_process(cmdline_of(seen[p])) = PyBool(FALSE)

\* p is a status run about to report
StatusReports(p) ==
    Running(p) /\ cur[p] = "status" /\ pc[p] = "decide" /\ pc'[p] = "exited"

\* C14: status gives each verdict its own outcome.  Running: exit code 0 and
\* the record's PID reported.  NotRunning: the 'unavailable' exit code (1 where
\* the platform has none), no PID and no warning.  Indeterminate: the warning
\* about the unverified PID has been logged, which no NotRunning run logs, and
\* the exit code is not 0.
C14_StatusOutcomes ==
    [][\A p \in Procs :
          StatusReports(p) =>
              /\ VerdictRunning(p) =>
                     /\ exitcode'[p] = 0
                     /\ reported'[p] = pid_of(pid_data[p])
                     /\ ~warned'[p]
              /\ (~VerdictRunning(p) /\ ~VerdictIndeterminate(p)) =>
                     /\ exitcode'[p] = unavailable_code
                     /\ reported'[p] = 0
                     /\ ~warned'[p]
              /\ VerdictIndeterminate(p) =>
                     /\ warned'[p]
                     /\ exitcode'[p] # 0
                     /\ reported'[p] = 0]_vars

\* a status run has ended after its lookup warned of a live PID it could not
\* verify
C14_Witness ==
    \E p \in Procs :
        /\ pc[p] = "exited" /\ cmd[p] = "status"
        /\ warned[p] /\ exitcode[p] = unavailable_code /\ reported[p] = 0

\* p runs stop, as the subcommand or inside restart, and its lookup returned
\* nothing
StopSeesNothing(p) ==
    /\ Running(p) /\ cur[p] = "stop" /\ pc[p] = "decide"
    /\ ~py_truth(pid_data[p])

\* C15: when stop's lookup returns nothing, stop ends the process with a
\* non-zero code (the 'unavailable' code) and has sent no signal to any process;
\* this is so for the stop subcommand and for the stop that restart calls with
\* exit disabled, which ends the calling process instead of returning.
C15_StopNothingExitsNonZero ==
    [][\A p \in Procs :
          (StopSeesNothing(p) /\ Steps(p)) =>
              /\ pc'[p] = "exited"
              /\ exitcode'[p] = unavailable_code /\ exitcode'[p] # 0
              /\ sent[p] = {}
              /\ ptable' = [ptable EXCEPT ![p] = "none"]
              /\ gotsig' = [gotsig EXCEPT ![p] = FALSE]]_vars

\* a stop subcommand and a restart have both ended in stop's 'nothing is
\* running' branch
C15_Witness ==
    \E p, q \in Procs :
        /\ cmd[p] = "stop" /\ cmd[q] = "restart"
        /\ pc[p] = "exited" /\ pc[q] = "exited"
        /\ exitcode[p] = unavailable_code /\ exitcode[q] = unavailable_code
        /\ raised[p] = "none" /\ raised[q] = "none"

\* the argv saved in a record, 'restart' replaced by 'start' in its arguments
SavedArgvAsStart(data) ==
    LET saved == data.v["argv"].v
    IN [i \in DOMAIN saved |->
           IF i > 1 /\ saved[i].v = "restart" THEN "start" ELSE saved[i].v]

\* the PIDs p has sent a signal to
Stopped(p) == {m.to : m \in sent[p]}

\* C16: restart of a running instance runs stop without ending the calling
\* process, then runs start again with the saved argv in which 'restart' is
\* replaced by 'start'; with or without process inspection that start is not
\* refused as 'already running' because of the instance just stopped: it
\* passes its guard and goes on to write its record.
C16_RestartStartsAgain ==
    [][\A p \in Procs :
          (Running(p) /\ cmd[p] = "restart" /\ Steps(p)) =>
              /\ pc[p] = "stop_done" =>
                     (pc'[p] = "restart_run" /\ ptable'[p] = ptable[p])
              /\ pc[p] = "restart_run" =>
                     /\ pc'[p] = "lk_read" /\ cur'[p] = "start"
                     /\ argv'[p] = SavedArgvAsStart(pid_data[p])
              /\ (pc[p] = "decide" /\ cur[p] = "start" /\ py_truth(pid_data[p])
                  /\ pid_of(pid_data[p]) \in Stopped(p)) =>
                     (pc'[p] = "start_write" /\ fd'[p] # Closed)]_vars

\* p is between the open(fp, 'w') and the end of the with block, and the file
\* at the path is the one it writes: empty, or with the first part of the record
WriteInProgress(p) ==
    /\ Running(p) /\ pc[p] = "start_write"
    /\ file.exists /\ file.ino = fd[p]
    /\ file.text \in {EmptyText, PrefixText}

\* q's lookup has read the empty file, or a prefix of a record
ReadPartial(q) ==
    Running(q) /\ pc[q] = "lk_act" /\ rbuf[q] \in {EmptyText, PrefixText}

\* C17: a lookup that read the file while a register was writing it (the file
\* truncated to empty, or holding a prefix of the record) treats the content as
\* corrupt: it tries to remove the file, returns nothing (NotRunning) and
\* raises nothing.
C17_PartialReadIsNotRunning ==
    [][\A q \in Procs :
          (ReadPartial(q) /\ Steps(q)) =>
              /\ pc'[q] = "decide"
              /\ pid_data'[q] = PyNone
              /\ raised'[q] = "none" /\ exitcode'[q] = NotExited
              /\ ~warned'[q]
              /\ file' = os_remove_while_open(file)]_vars

\* a lookup holds the prefix of the record another process is writing
C17_Witness ==
    \E p, q \in Procs :
        /\ p # q
        /\ WriteInProgress(p) /\ file.text = PrefixText
        /\ ReadPartial(q) /\ rbuf[q] = file.text

\* p runs the stop subcommand and has found a running instance
StopsInstance(p) ==
    /\ Running(p) /\ cmd[p] = "stop" /\ cur[p] = "stop"
    /\ \/ pc[p] = "decide" /\ py_truth(pid_data[p])
       \/ pc[p] \in {"stop_wait", "stop_kill", "stop_done"}

\* C18: when stop of a running instance ends with exit code 0, no record
\* naming the PID it stopped is left in the directory, whether the instance
\* ended on the graceful request, was killed after the timeout, or was
\* interrupted without process inspection; and no step of stop itself touches
\* the file.
C18_NoRecordAfterStop ==
    [][\A p \in Procs :
          (StopsInstance(p) /\ Steps(p)) =>
              /\ file' = file
              /\ (pc'[p] = "exited" /\ exitcode'[p] = 0) =>
                     ~(file'.exists /\ text_pid(file'.text) \in Stopped(p))]_vars

\* the file holds a record naming p
RecordNames(p) == file.exists /\ text_pid(file.text) = p

Restarts(p) == pc[p] \notin {"idle"} /\ cmd[p] = "restart"

\* C20: restart invoked when the lookup returns nothing ends the calling
\* process inside stop with the 'unavailable' code, which is not 0: start is
\* never run again, the process writes no record and starts no worker.
C20_RestartOfNothingExits ==
    [][\A p \in Procs :
          /\ (Restarts(p) /\ StopSeesNothing(p) /\ Steps(p)) =>
                 /\ pc'[p] = "exited"
                 /\ exitcode'[p] = unavailable_code /\ exitcode'[p] # 0
                 /\ raised'[p] = "none"
                 /\ file' = file
          /\ (Restarts(p) /\ cur'[p] = "start") => py_truth(pid_data[p]) \/ cur[p] = "start"
          /\ (Restarts(p) /\ cur[p] = "stop") => (~hook'[p] /\ ~worker'[p] /\ fd'[p] = Closed)]_vars

\* a restart found nothing running and has ended with the 'unavailable' code,
\* the directory left without a record
C20_Witness ==
    \E p \in Procs :
        /\ cmd[p] = "restart" /\ pc[p] = "exited"
        /\ exitcode[p] = unavailable_code /\ raised[p] = "none"
        /\ ~file.exists

\* q's lookup has read a parsable record on win32 without psutil
ReadRecordUnprobed(q) ==
    /\ win32 /\ ~HAS_PSUTIL
    /\ Running(q) /\ pc[q] = "lk_act" /\ ~NotARecord(rbuf[q])

\* C21: on win32 without psutil the lookup does not call the prober: for every
\* parsable record it returns the record (Running) and leaves the file as it
\* is, whether the PID is alive or not; it neither raises the prober's
\* 'psutil not installed' error nor returns nothing.
C21_Win32NoPsutilReturnsRecord ==
    [][\A q \in Procs :
          (ReadRecordUnprobed(q) /\ Steps(q)) =>
              /\ pc'[q] = "decide"
              /\ pid_data'[q] = parse_pid_data(rbuf[q]).data
              /\ py_truth(pid_data'[q])
              /\ pid_of(pid_data'[q]) = text_pid(rbuf[q])
              /\ raised'[q] = "none" /\ exitcode'[q] = NotExited
              /\ file' = file]_vars

\* on win32 without psutil a lookup has returned a record whose process is
\* gone, and the file is still there
C21_Witness ==
    \E q \in Procs :
        /\ win32 /\ ~HAS_PSUTIL
        /\ Running(q) /\ pc[q] = "decide" /\ py_truth(pid_data[q])
        /\ ~Alive(pid_of(pid_data[q]))
        /\ file.exists /\ text_pid(file.text) = pid_of(pid_data[q])

\* what the verifier is to return for the command line cl
LooksLikeCrossbar(cl) ==
    \/ Len(cl) > 1 /\ str_contains(T_crossbar, cl[2])
    \/ Len(cl) > 0 /\ cl[1] = T_controller

\* C22: for every command line, the empty one and one of a single token
\* included, the verifier returns a boolean and raises nothing: True exactly
\* when the second token contains 'crossbar' or the first token is
\* 'crossbar-controller'.
C22_VerifierTotal ==
    verified.called => verified.ret = PyBool(LooksLikeCrossbar(verified.cmdline))

\* the prober is consulted and answers for every PID of the model
ProbesAnswer == ~win32 \/ HAS_PSUTIL

\* C23: with every start's lookup and register as one atomic step and probes
\* that answer truthfully, at most one started instance is alive in every
\* reachable state, and every live started instance has, from its register
\* until its shutdown trigger runs, a record in the directory naming its PID.
C23_OneInstanceWithRecord ==
    ProbesAnswer =>
        /\ Cardinality(Instances) <= 1
        /\ \A p \in Instances : file.exists /\ text_pid(file.text) = p

\* the shutdown trigger of p runs and the file at the path goes
HookRemoves(p) ==
    /\ Running(p) /\ cur[p] = "start" /\ pc[p] = "shutdown" /\ pc'[p] = "start_exit"
    /\ file.exists /\ ~file'.exists

\* C24: in every interleaving the shutdown trigger of a started process
\* removes the file only when the record in it names that process's own PID;
\* it never removes a record naming another instance that is alive.
C24_HookRemovesOwnRecordOnly ==
    [][\A p \in Procs :
          HookRemoves(p) =>
              /\ text_pid(file.text) = p
              /\ ~(\E q \in Instances \ {p} : text_pid(file.text) = q)]_vars

\* p runs stop with psutil and its lookup returned a record
StopVerified(p) ==
    /\ HAS_PSUTIL
    /\ pc[p] \notin {"idle", "exited"} /\ cur[p] = "stop"
    /\ sent[p] # {}

\* C25: with identity verification available, every termination or kill
\* request of stop reaches a process of the kind that the lookup of this stop
\* probed and the verifier accepted, also when the target has ended and its PID
\* has gone to an unrelated program since the lookup or since the timeout.
C25_SignalsReachVerifiedProcess ==
    \A p \in Procs :
        StopVerified(p) =>
            \A m \in sent[p] :
                /\ m.kind = seen[p]
                /\ _is_crossbar_process(cmdline_of(m.kind)) = PyBool(TRUE)

\* the file at the path is the one start p is writing its record to, or holds
\* the record of the live instance p
FileOf(p) ==
    /\ Running(p) /\ cur[p] = "start" /\ file.exists
    /\ \/ pc[p] = "start_write" /\ file.ino = fd[p]
       \/ p \in Instances /\ text_pid(file.text) = p

\* C26: whatever lookups other processes run while a start writes its record
\* or afterwards, no lookup takes away the file of that start: once the
\* register is complete the directory holds a record naming the start's PID
\* for as long as the instance runs.
C26_LookupKeepsLiveRecord ==
    [][\A p, q \in Procs :
          (p # q /\ FileOf(p) /\ Running(q) /\ pc[q] = "lk_act" /\ Steps(q)) =>
              (file' = file /\ FileOf(p)')]_vars

====
